---- MODULE Spec2Model ----
(***************************************************************************)
(* Route Risk Evaluation Engine of the safe-routing navigator.             *)
(*                                                                         *)
(* SpecPoint : NavigatorAgent._analyze_single_point, one step per awaited  *)
(*             risk source, the sources' replies drawn from the replies    *)
(*             the collaborators in services/ and agents/ can produce.     *)
(* Spec      : NavigatorAgent.analyze_routes_batch followed by the route   *)
(*             selection of handle_route_request_stream.                   *)
(* SpecResample : NavigatorAgent._resample_path, one step per segment of   *)
(*             the path, on paths along the lines of a one-metre grid.     *)
(* SpecServer : the two request handlers of main.py around the navigator  *)
(*             they share: alert check, hand-over of the alert, point      *)
(*             evaluations reading the navigator's alerts and mode flag.   *)
(* SpecStream : the analysis thread, the queue and the generator of        *)
(*             handle_route_request_stream.                                *)
(* SpecHazardCache : the result caches of the tsunami and the landslide    *)
(*             service under calls that can overlap.                       *)
(* SpecPointFair, SpecResampleFair : SpecPoint and SpecResample with the   *)
(*             steps that can be taken being taken.                        *)
(*                                                                         *)
(* Scores are kept in units of 1/5 point, so that the vibe penalty         *)
(* (100 - v) * 0.2 is an integer: 100 points are Pt(100) = 500 units.      *)
(* Text is a sequence of one-character tokens; the token "~" stands for    *)
(* the wave dash of the depth labels, "ijo" for the suffix "or more" and   *)
(* "miman" for the suffix "less than".  A risk factor is modelled by its   *)
(* category tag; its human-readable qualifier is not kept.                 *)
(***************************************************************************)
EXTENDS Integers, Sequences, FiniteSets, TLC

VARIABLES
    is_emergency_mode,  \* NavigatorAgent.is_emergency_mode
    active_alerts,      \* NavigatorAgent.active_alerts (as the set of its items)
    svc,                \* attribute state of each collaborator of the navigator
    pc,                 \* position inside _analyze_single_point
    point_score,        \* local point_score, in 1/5 points
    current_risks,      \* local current_risks, the category tags in order
    calls,              \* sources awaited so far by this evaluation
    some_ok,            \* whether a source awaited so far produced its analysis
    last,               \* reply of the source awaited last and what it changed
    result,             \* the dict returned by _analyze_single_point
    routes,             \* analyze_routes_batch: the sample list of each candidate
    bpc,                \* position of the batch run and of the route selection
    unique_point_list,  \* analyze_routes_batch: first-seen point of each key
    task,               \* outcome of each evaluation task given to gather
    on_progress,        \* whether a progress callback is attached
    delivered,          \* results handed to the progress callback, in order
    results_cache,      \* analyze_routes_batch: key -> result
    evaluated_routes,   \* the list analyze_routes_batch returns
    route_result,       \* route_result of the request handler
    sampling_points,    \* points the handler sends to the client before the analysis
    path_points,        \* _resample_path: the argument points
    interval_meters,    \* _resample_path: the argument interval_meters
    rpc,                \* position inside _resample_path
    seg_index,          \* _resample_path: index of the segment to process next
    current_dist_buffer,\* _resample_path: distance carried over the segments
    resampled,          \* _resample_path: the list built and returned
    seg_trace,          \* length of and ratios emitted on the segment processed last
    req,                \* the requests being handled: position and locals of each
    analysis_queue,     \* handle_route_request_stream: the queue of point results
    future,             \* state of the analysis submitted to the executor
    worker_left,        \* points whose result the analysis has not yet produced
    stream_events,      \* events the generator has yielded, in order
    gen_pc,             \* position of the generator in the analysis part
    hazard_cache,       \* _cache of the tsunami and of the landslide service
    hcall               \* the calls of check_tsunami_risk / check_landslide_risk

pointVars == <<is_emergency_mode, active_alerts, svc, pc, point_score,
               current_risks, calls, some_ok, last, result>>

batchVars == <<routes, bpc, unique_point_list, task, on_progress, delivered,
               results_cache, evaluated_routes, route_result, sampling_points>>

resampleVars == <<path_points, interval_meters, rpc, seg_index,
                  current_dist_buffer, resampled, seg_trace>>

serverVars == <<req>>

streamVars == <<analysis_queue, future, worker_left, stream_events, gen_pc>>

cacheVars == <<hazard_cache, hcall>>

handlerVars == <<serverVars, streamVars, cacheVars>>

vars == <<pointVars, batchVars, resampleVars, handlerVars>>

----------------------------------------------------------------------------
(* Bounds of the model *)

MaxAlerts == 2
MaxPlaces == 3

(* Program constants *)

ScoreUnitsPerPoint == 5
DefaultVibeScore == 50
SolarDeduction == 5
BonusCap == 20
LandslidePenalty == 40
AlphaThreshold == 100

Pt(n) == n * ScoreUnitsPerPoint

----------------------------------------------------------------------------
(* Text *)

Contains(sub, s) ==
    \E i \in 1..(Len(s) - Len(sub) + 1) : SubSeq(s, i, i + Len(sub) - 1) = sub

Truthy(s) == s # <<>>

NoLabel == <<>>

S10m == <<"1", "0", "m">>
S5m == <<"5", "m">>
S3m == <<"3", "m">>
S2m == <<"2", "m">>
S1m == <<"1", "m">>
S05mFrom == <<"0", ".", "5", "m", "~">>

----------------------------------------------------------------------------
(* Alerts *)

ALERT_TO_HAZARD ==
    [a \in {"heavy_rain_warning", "flood_warning", "tsunami_warning",
            "tsunami_advisory", "landslide_alert_info"} |->
        CASE a = "heavy_rain_warning" -> "flood"
          [] a = "flood_warning" -> "flood"
          [] a = "tsunami_warning" -> "tsunami"
          [] a = "tsunami_advisory" -> "tsunami"
          [] a = "landslide_alert_info" -> "landslide"]

\* Alert titles a caller can store: the mapped ones and one the map does not know.
AlertIds == DOMAIN ALERT_TO_HAZARD \cup {"heavy_rain_emergency"}

AlertSets == {S \in SUBSET AlertIds : Cardinality(S) <= MaxAlerts}

is_hazard_alert_active(alerts, hazard_type) ==
    \E alert \in alerts :
        (IF alert \in DOMAIN ALERT_TO_HAZARD THEN ALERT_TO_HAZARD[alert] ELSE "")
            = hazard_type

----------------------------------------------------------------------------
(* Collaborators *)

ServiceNames == {"analyst", "solar", "places", "flood", "tsunami", "landslide"}

\* "unset": the attribute was never assigned (no GOOGLE_MAPS_API_KEY);
\* "none": its initialisation failed; "ready": initialised.
ServiceConfigs ==
    {[s \in ServiceNames |-> "ready"], [s \in ServiceNames |-> "unset"]}
    \cup {[s \in ServiceNames |-> IF s = x THEN "none" ELSE "ready"] :
            x \in ServiceNames}

VibeScores == {0, 60, 100, 120}

\* "no_response": the image host accepts the request of requests.get
\* (analyst.py 62, no timeout argument) and never answers.
AnalystRuns ==
    {[kind |-> "no_street_view"], [kind |-> "vision_failed"],
     [kind |-> "malformed"], [kind |-> "raises"], [kind |-> "no_response"]}
    \cup {[kind |-> "scored", v |-> v] : v \in VibeScores}

\* AnalystAgent.analyze_location_vibe: the dict it returns.
analyze_location_vibe(run) ==
    IF run.kind \in {"scored", "malformed"}
    THEN [safety_score |-> IF run.kind = "scored" THEN run.v ELSE -1,
          numeric |-> run.kind = "scored"]
    ELSE [score |-> 50]

SolarRuns == {"building", "no_building", "http_error", "raises"}

\* SolarService.evaluate_darkness_risk: the deduction, in points.
evaluate_darkness_risk(run) == IF run = "building" THEN SolarDeduction ELSE 0

PlaceTypes == {"police", "hospital", "fire_station", "convenience_store", "other"}

PlaceLists == UNION {[1..n -> PlaceTypes] : n \in 0..MaxPlaces}

PlacesRuns ==
    {[kind |-> "http_error"], [kind |-> "raises"]}
    \cup {[kind |-> "ok", places |-> ps] : ps \in PlaceLists}

Min(a, b) == IF a < b THEN a ELSE b

RECURSIVE SumBonus(_)
SumBonus(places) ==
    IF places = <<>> THEN 0
    ELSE LET p == Head(places) IN
         (CASE p = "police" -> 10
            [] p \in {"hospital", "fire_station"} -> 8
            [] p = "convenience_store" -> 5
            [] OTHER -> 0) + SumBonus(Tail(places))

\* evaluate_safety_bonus without the cap.
evaluate_safety_bonus_uncapped(places) ==
    [bonus |-> SumBonus(places),
     details |-> Len(SelectSeq(places, LAMBDA p : p # "other"))]

\* PlacesService.evaluate_safety_bonus: (bonus in points, number of details).
evaluate_safety_bonus(places) ==
    [bonus |-> Min(SumBonus(places), BonusCap),
     details |-> Len(SelectSeq(places, LAMBDA p : p # "other"))]

\* Depth categories of TsunamiService, shallowest last in the source.
T10mOrMore == <<"1", "0", "m", "ijo">>
T5mTo10m == <<"5", "m", "~", "1", "0", "m">>
T2mTo5m == <<"2", "m", "~", "5", "m">>
T1mTo2m == <<"1", "m", "~", "2", "m">>
T03mTo1m == <<"0", ".", "3", "m", "~", "1", "m">>
TUnder03m == <<"0", ".", "3", "m", "miman">>

\* TsunamiService._estimate_depth_from_color; NoLabel is None.
estimate_depth_from_color(r, g, b) ==
    IF 100 <= r /\ r <= 180 /\ g < 80 /\ b > 100 THEN T10mOrMore
    ELSE IF r > 180 /\ g < 80 /\ b < 80 THEN T5mTo10m
    ELSE IF r > 200 /\ 50 <= g /\ g <= 100 /\ b < 80 THEN T2mTo5m
    ELSE IF r > 200 /\ 100 <= g /\ g <= 180 /\ b < 100 THEN T1mTo2m
    ELSE IF r > 200 /\ g > 180 /\ b < 150 THEN T03mTo1m
    ELSE IF r > 220 /\ g > 200 THEN TUnder03m
    ELSE IF r > 150 \/ g > 150 THEN TUnder03m
    ELSE NoLabel

\* Sampled channel values of a tile pixel: every branch above is reached.
RedSamples == {90, 140, 210, 240}
GreenSamples == {40, 90, 140, 190, 230}
BlueSamples == {40, 120, 200}
AlphaSamples == {0, 255}

TileFetches ==
    {[kind |-> "http404"], [kind |-> "error"]}
    \cup {[kind |-> "pixel", r |-> r, g |-> g, b |-> b, a |-> a] :
            r \in RedSamples, g \in GreenSamples, b \in BlueSamples,
            a \in AlphaSamples}

NoRisk == [hit |-> FALSE, label |-> NoLabel]

\* TsunamiService._check_tile: (is_risk, depth_category).
check_tile(fetch) ==
    IF fetch.kind = "http404" THEN NoRisk
    ELSE IF fetch.kind = "error" THEN NoRisk
    ELSE IF fetch.a < AlphaThreshold THEN NoRisk
    ELSE LET depth == estimate_depth_from_color(fetch.r, fetch.g, fetch.b) IN
         IF Truthy(depth) THEN [hit |-> TRUE, label |-> depth] ELSE NoRisk

\* TsunamiService.check_tsunami_risk on a key not yet cached.
check_tsunami_risk(fetch) == check_tile(fetch)

\* LandslideService.HAZARD_TYPES, in the order the tiles are checked.
HAZARD_TYPES == <<"steep_slope_failure", "debris_flow", "landslide">>

\* What the three tile checks of one landslide query can answer: for each
\* hazard id whether its tile marks the pixel, or that the tiles could not be read.
LandslideRuns ==
    {[kind |-> "tiles", marked |-> m] : m \in SUBSET (1..Len(HAZARD_TYPES))}
    \cup {[kind |-> "error"]}

\* LandslideService.check_landslide_risk: (is_risk, risk_type).
check_landslide_risk(run) ==
    IF run.kind = "tiles" /\ run.marked # {}
    THEN [hit |-> TRUE,
          label |-> <<HAZARD_TYPES[CHOOSE i \in run.marked :
                                      \A j \in run.marked : i <= j]>>]
    ELSE NoRisk

\* Replies of the flood source: (is_flood, depth).
FloodDepthLabels ==
    {NoLabel,
     <<"3", "m">>,
     <<"0", ".", "5", "m", "miman">>,
     <<"0", ".", "5", "m", "~", "3", "m">>,
     <<"0", ".", "5", "m", "~">>,
     <<"3", "m", "~", "5", "m">>,
     <<"1", "0", "m", "~", "2", "0", "m">>,
     <<"2", "0", "m", "ijo">>}

FloodReplies ==
    {NoRisk} \cup {[hit |-> TRUE, label |-> d] : d \in FloodDepthLabels}

----------------------------------------------------------------------------
(* NavigatorAgent._analyze_single_point: the penalty tiers *)

\* flood_penalty with the "3m" test of the second tier left out.
flood_penalty_without_3m(depth) ==
    IF Truthy(depth) /\ Contains(S10m, depth) THEN 50
    ELSE IF Truthy(depth) /\ Contains(S5m, depth) THEN 35
    ELSE IF Truthy(depth) /\ Contains(S05mFrom, depth) THEN 20
    ELSE 10

\* Penalty in points for a flood hit with label depth (navigator.py 475-482).
flood_penalty(depth) ==
    IF Truthy(depth) /\ Contains(S10m, depth) THEN 50
    ELSE IF Truthy(depth) /\ (Contains(S5m, depth) \/ Contains(S3m, depth)) THEN 35
    ELSE IF Truthy(depth) /\ Contains(S05mFrom, depth) THEN 20
    ELSE 10

\* tsunami_penalty with the "10m" tier left out.
tsunami_penalty_without_10m(depth) ==
    IF Truthy(depth) /\ Contains(S5m, depth) THEN 45
    ELSE IF Truthy(depth) /\ (Contains(S2m, depth) \/ Contains(S1m, depth)) THEN 30
    ELSE 15

\* Penalty in points for a tsunami hit with label depth (navigator.py 496-503).
tsunami_penalty(depth) ==
    IF Truthy(depth) /\ Contains(S10m, depth) THEN 60
    ELSE IF Truthy(depth) /\ Contains(S5m, depth) THEN 45
    ELSE IF Truthy(depth) /\ (Contains(S2m, depth) \/ Contains(S1m, depth)) THEN 30
    ELSE 15

\* clamp with the lower test left out.
clamp_upper_only(score) == IF score > Pt(100) THEN Pt(100) ELSE score

\* The clamp of the returned score (navigator.py 522-523).
clamp(score) ==
    LET low == IF score < 0 THEN 0 ELSE score IN
    IF low > Pt(100) THEN Pt(100) ELSE low

\* Requests the server handles at the same time, the slot of a finished
\* request being taken by the next one.
MaxRequests == 2

Requests == 1..MaxRequests

\* alert_info = None
NoAlertInfo == [title |-> "", type |-> "None", should_emergency_mode |-> FALSE]

\* No request in the slot.
NoRequest ==
    [pc |-> "idle", handler |-> "none", mode |-> "NORMAL",
     alert_info |-> NoAlertInfo, evaluated |-> FALSE, read |-> {},
     normal |-> TRUE]

ServerIdle == req = [r \in Requests |-> NoRequest]

\* No analysis has been submitted.
StreamIdle ==
    /\ analysis_queue = <<>>
    /\ future = "none"
    /\ worker_left = {}
    /\ stream_events = <<>>
    /\ gen_pc = "idle"

\* No call of a hazard service.
CacheIdle ==
    /\ hazard_cache = <<>>
    /\ hcall = <<>>

HandlersIdle == ServerIdle /\ StreamIdle /\ CacheIdle

\* _resample_path has not been entered.
NoSegment == [dist |-> 0, ratios |-> <<>>]

ResampleIdle ==
    /\ path_points = <<>>
    /\ interval_meters = 1
    /\ rpc = "idle"
    /\ seg_index = 0
    /\ current_dist_buffer = 0
    /\ resampled = <<>>
    /\ seg_trace = NoSegment

\* No batch run has been started.
BatchIdle ==
    /\ routes = <<>>
    /\ bpc = "idle"
    /\ unique_point_list = <<>>
    /\ task = <<>>
    /\ on_progress = FALSE
    /\ delivered = <<>>
    /\ results_cache = <<>>
    /\ evaluated_routes = <<>>
    /\ route_result = [kind |-> "none"]
    /\ sampling_points = <<>>

NoReply ==
    [src |-> "none", status |-> "none", hit |-> FALSE, label |-> NoLabel,
     delta |-> 0, factors |-> 0]

NoResult == [score |-> -1, risks |-> <<>>]

\* One awaited source: delta is added to point_score, tags appended to
\* current_risks.  status is "ok", "degraded" (the collaborator swallowed its
\* own failure and answered its fallback) or "raised" (the except branch).
Awaited(src, status, hit, label, delta, tags, next) ==
    /\ point_score' = point_score + delta
    /\ current_risks' = current_risks \o tags
    /\ calls' = calls \cup {src}
    /\ some_ok' = (some_ok \/ status = "ok")
    /\ last' = [src |-> src, status |-> status, hit |-> hit, label |-> label,
                delta |-> delta, factors |-> Len(tags)]
    /\ pc' = next
    /\ UNCHANGED <<is_emergency_mode, active_alerts, svc, result>>
    /\ UNCHANGED <<batchVars, resampleVars, handlerVars>>

Skipped(next) ==
    /\ pc' = next
    /\ UNCHANGED <<is_emergency_mode, active_alerts, svc, point_score,
                   current_risks, calls, some_ok, last, result>>
    /\ UNCHANGED <<batchVars, resampleVars, handlerVars>>

\* normal_sources_enabled with the mode flag ignored.
normal_sources_always(emergency) == TRUE

\* navigator.py 388-396: the locals and the mode gate.
normal_sources_enabled(emergency) == ~emergency

EnterPoint ==
    /\ pc = "entry"
    /\ point_score' = Pt(100)
    /\ current_risks' = <<>>
    /\ pc' = IF normal_sources_enabled(is_emergency_mode) THEN "vibe" ELSE "flood"
    /\ UNCHANGED <<is_emergency_mode, active_alerts, svc, calls, some_ok,
                   last, result>>
    /\ UNCHANGED <<batchVars, resampleVars, handlerVars>>

\* vibe_result.get("safety_score", 50)
vibe_score_of(reply) ==
    IF "safety_score" \in DOMAIN reply THEN reply.safety_score ELSE DefaultVibeScore

\* vibe_penalty with the factor 0.1.
vibe_penalty_tenth(score) == (100 - score) \div 2

\* (100 - vibe_score) * 0.2, in 1/5 points.
vibe_penalty(score) == 100 - score

\* navigator.py 398-419.  An unset attribute raises AttributeError outside
\* every try block: the evaluation ends with an exception.  The label kept
\* of the analyst's reply is the safety score read from it.  While the
\* analyst waits for an answer that does not come, the evaluation stays at
\* its await ("waiting"): neither run_in_executor nor the analyst bounds the
\* wait.
VibeCheck ==
    /\ pc = "vibe"
    /\ IF svc["analyst"] = "unset"
       THEN /\ pc' = "raised"
            /\ UNCHANGED <<is_emergency_mode, active_alerts, svc, point_score,
                           current_risks, calls, some_ok, last, result>>
            /\ UNCHANGED <<batchVars, resampleVars, handlerVars>>
       ELSE IF svc["analyst"] = "none" THEN Skipped("solar")
       ELSE \E run \in AnalystRuns :
            LET reply == analyze_location_vibe(run)
                penalty == vibe_penalty(vibe_score_of(reply))
                status == IF run.kind = "scored" THEN "ok" ELSE "degraded"
            IN  IF run.kind = "no_response" THEN Skipped("waiting")
                ELSE IF run.kind = "raises"
                   \/ ("safety_score" \in DOMAIN reply /\ ~reply.numeric)
                THEN Awaited("analyst", "raised", FALSE, NoLabel, 0, <<>>, "solar")
                ELSE IF penalty > 0
                THEN Awaited("analyst", status, FALSE, <<vibe_score_of(reply)>>,
                             -penalty, <<"VIBE_RISK">>, "solar")
                ELSE Awaited("analyst", status, FALSE, <<vibe_score_of(reply)>>,
                             0, <<>>, "solar")

\* navigator.py 421-435.
SolarCheck ==
    /\ pc = "solar"
    /\ IF svc["solar"] # "ready" THEN Skipped("places")
       ELSE \E run \in SolarRuns :
            LET solar_deduction == evaluate_darkness_risk(run)
                status == IF run = "http_error" THEN "degraded" ELSE "ok"
            IN  IF run = "raises"
                THEN Awaited("solar", "raised", FALSE, NoLabel, 0, <<>>, "places")
                ELSE IF solar_deduction > 0
                THEN Awaited("solar", status, FALSE, NoLabel, -Pt(solar_deduction),
                             <<"SHADOW_RISK">>, "places")
                ELSE Awaited("solar", status, FALSE, NoLabel, 0, <<>>, "places")

\* PlacesCheck with the except branch of the places block left out: the
\* exception of the amenity source ends the evaluation.
PlacesCheck_raise_escapes ==
    /\ pc = "places"
    /\ IF svc["places"] # "ready" THEN Skipped("flood")
       ELSE \E run \in PlacesRuns :
            LET places == IF run.kind = "ok" THEN run.places ELSE <<>>
                reply == evaluate_safety_bonus(places)
                status == IF run.kind = "ok" THEN "ok" ELSE "degraded"
            IN  IF run.kind = "raises"
                THEN Awaited("places", "raised", FALSE, NoLabel, 0, <<>>, "raised")
                ELSE IF reply.bonus > 0
                THEN Awaited("places", status, FALSE, NoLabel, Pt(reply.bonus),
                             [i \in 1..reply.details |-> "SAFETY_BONUS"], "flood")
                ELSE Awaited("places", status, FALSE, NoLabel, 0, <<>>, "flood")

\* navigator.py 437-452.  find_nearby_safety_spots answers [] when its request fails.
PlacesCheck ==
    /\ pc = "places"
    /\ IF svc["places"] # "ready" THEN Skipped("flood")
       ELSE \E run \in PlacesRuns :
            LET places == IF run.kind = "ok" THEN run.places ELSE <<>>
                reply == evaluate_safety_bonus(places)
                status == IF run.kind = "ok" THEN "ok" ELSE "degraded"
            IN  IF run.kind = "raises"
                THEN Awaited("places", "raised", FALSE, NoLabel, 0, <<>>, "flood")
                ELSE IF reply.bonus > 0
                THEN Awaited("places", status, FALSE, NoLabel, Pt(reply.bonus),
                             [i \in 1..reply.details |-> "SAFETY_BONUS"], "flood")
                ELSE Awaited("places", status, FALSE, NoLabel, 0, <<>>, "flood")

\* hazard_queried with the alert gate left out.
hazard_queried_ungated(alerts, services, hazard_type) ==
    services[hazard_type] = "ready"

\* The guard of one hazard check: the alert gate, then hasattr and truthiness.
hazard_queried(alerts, services, hazard_type) ==
    /\ is_hazard_alert_active(alerts, hazard_type)
    /\ services[hazard_type] = "ready"

\* navigator.py 466-485.
FloodCheck ==
    /\ pc = "flood"
    /\ IF ~hazard_queried(active_alerts, svc, "flood") THEN Skipped("tsunami")
       ELSE \/ Awaited("flood", "raised", FALSE, NoLabel, 0, <<>>, "tsunami")
            \/ \E reply \in FloodReplies :
                 IF reply.hit
                 THEN Awaited("flood", "ok", TRUE, reply.label,
                              -Pt(flood_penalty(reply.label)),
                              <<"FLOOD_HAZARD">>, "tsunami")
                 ELSE Awaited("flood", "ok", FALSE, NoLabel, 0, <<>>, "tsunami")

\* navigator.py 487-506.
TsunamiCheck ==
    /\ pc = "tsunami"
    /\ IF ~hazard_queried(active_alerts, svc, "tsunami") THEN Skipped("landslide")
       ELSE \/ Awaited("tsunami", "raised", FALSE, NoLabel, 0, <<>>, "landslide")
            \/ \E fetch \in TileFetches :
                 LET reply == check_tsunami_risk(fetch)
                     status == IF fetch.kind = "error" THEN "degraded" ELSE "ok"
                 IN  IF reply.hit
                     THEN Awaited("tsunami", status, TRUE, reply.label,
                                  -Pt(tsunami_penalty(reply.label)),
                                  <<"TSUNAMI_HAZARD">>, "landslide")
                     ELSE Awaited("tsunami", status, FALSE, NoLabel, 0, <<>>,
                                  "landslide")

\* navigator.py 508-519.
LandslideCheck ==
    /\ pc = "landslide"
    /\ IF ~hazard_queried(active_alerts, svc, "landslide") THEN Skipped("clamp")
       ELSE \/ Awaited("landslide", "raised", FALSE, NoLabel, 0, <<>>, "clamp")
            \/ \E run \in LandslideRuns :
                 LET reply == check_landslide_risk(run)
                     status == IF run.kind = "error" THEN "degraded" ELSE "ok"
                 IN  IF reply.hit
                     THEN Awaited("landslide", status, TRUE, reply.label,
                                  -Pt(LandslidePenalty),
                                  <<"LANDSLIDE_HAZARD">>, "clamp")
                     ELSE Awaited("landslide", status, FALSE, NoLabel, 0, <<>>,
                                  "clamp")

\* navigator.py 521-533.
ClampAndReturn ==
    /\ pc = "clamp"
    /\ result' = [score |-> clamp(point_score), risks |-> current_risks]
    /\ pc' = "done"
    /\ UNCHANGED <<is_emergency_mode, active_alerts, svc, point_score,
                   current_risks, calls, some_ok, last>>
    /\ UNCHANGED <<batchVars, resampleVars, handlerVars>>

InitPoint ==
    /\ BatchIdle
    /\ ResampleIdle
    /\ HandlersIdle
    /\ is_emergency_mode \in BOOLEAN
    /\ active_alerts \in AlertSets
    /\ svc \in ServiceConfigs
    /\ pc = "entry"
    /\ point_score = Pt(100)
    /\ current_risks = <<>>
    /\ calls = {}
    /\ some_ok = FALSE
    /\ last = NoReply
    /\ result = NoResult

NextPoint ==
    \/ EnterPoint
    \/ VibeCheck
    \/ SolarCheck
    \/ PlacesCheck
    \/ FloodCheck
    \/ TsunamiCheck
    \/ LandslideCheck
    \/ ClampAndReturn

SpecPoint == InitPoint /\ [][NextPoint]_vars

\* The event loop resumes an evaluation whose awaited call has returned.
SpecPointFair == SpecPoint /\ WF_vars(NextPoint)

----------------------------------------------------------------------------
(* NavigatorAgent.analyze_routes_batch and the route selection *)

MaxRoutes == 2

\* Coordinates are integers in units of 0.00001 degree.
GeoPoint(lat, lng) == [lat |-> lat, lng |-> lng]

\* round(x, 4) of a coordinate x >= 0: to the nearest 0.0001 degree, a tie to
\* the even neighbour.
round4(x) ==
    LET q == x \div 10
        r == x % 10
    IN  IF r < 5 THEN q
        ELSE IF r > 5 THEN q + 1
        ELSE IF q % 2 = 0 THEN q ELSE q + 1

\* point_key without the rounding.
point_key_exact(p) == <<p.lat, p.lng>>

\* point_key of analyze_routes_batch (navigator.py 221-222).
point_key(p) == <<round4(p.lat), round4(p.lng)>>

\* Sample points of the candidates: PA and PA2 are 0.00002 degree apart and
\* share a key, PB and PC have keys of their own.
PA == GeoPoint(3553891, 13974110)
PA2 == GeoPoint(3553893, 13974110)
PB == GeoPoint(3553990, 13974110)
PC == GeoPoint(3553990, 13974210)

\* Sample lists _resample_path can give for a candidate; the empty list is a
\* candidate with no polyline.
SampleLists ==
    {<<>>, <<PA>>, <<PB>>, <<PA, PB>>, <<PA2, PC>>, <<PA, PB, PC>>}

RouteLists == UNION {[1..n -> SampleLists] : n \in 0..MaxRoutes}

\* Scores _analyze_single_point can return (C1_ScoreInRange), in 1/5 points.
PointScores == {Pt(40), Pt(50), Pt(70), Pt(90)}

RECURSIVE Flatten(_)
\* all_points_with_route (navigator.py 206-217): the points of every
\* candidate, in order.
Flatten(rs) == IF rs = <<>> THEN <<>> ELSE Head(rs) \o Flatten(Tail(rs))

RECURSIVE first_seen(_, _)
\* unique_points (navigator.py 224-230): the first point seen of every key.
first_seen(points, kept) ==
    IF points = <<>> THEN kept
    ELSE LET p == Head(points)
             known == \E i \in 1..Len(kept) : point_key(kept[i]) = point_key(p)
         IN  first_seen(Tail(points), IF known THEN kept ELSE Append(kept, p))

\* unique_keys[i]
unique_key(i) == point_key(unique_point_list[i])

RECURSIVE collect_route_points_last_seen(_, _)
\* collect_route_points keeping the point seen last of every key.
collect_route_points_last_seen(points, unique_points) ==
    IF points = <<>> THEN unique_points
    ELSE LET point == Head(points)
             replaced == [i \in 1..Len(unique_points) |->
                             IF point_key(unique_points[i]) = point_key(point)
                             THEN point ELSE unique_points[i]]
         IN  collect_route_points_last_seen(
                 Tail(points),
                 IF \E i \in 1..Len(unique_points) :
                        point_key(unique_points[i]) = point_key(point)
                 THEN replaced ELSE Append(unique_points, point))

RECURSIVE collect_route_points(_, _)
\* navigator.py 183-186: the points of one route whose key is new are added
\* to unique_points, a dict in insertion order.
collect_route_points(points, unique_points) ==
    IF points = <<>> THEN unique_points
    ELSE LET point == Head(points) IN
         collect_route_points(
             Tail(points),
             IF \E i \in 1..Len(unique_points) :
                    point_key(unique_points[i]) = point_key(point)
             THEN unique_points ELSE Append(unique_points, point))

RECURSIVE unique_points_of_routes(_, _)
\* navigator.py 180-186: the loop over the routes.
unique_points_of_routes(rs, unique_points) ==
    IF rs = <<>> THEN unique_points
    ELSE unique_points_of_routes(Tail(rs),
                                 collect_route_points(Head(rs), unique_points))

\* NavigatorAgent.get_unique_sampling_points (navigator.py 171-188); the
\* sample list of a route is what get_sampling_points returns for it.
get_unique_sampling_points(rs) == unique_points_of_routes(rs, <<>>)

\* navigator.py 202-255: sampling, deduplication and the creation of one
\* evaluation task per unique point; before it, the handler sends the unique
\* sampling points to the client (main.py 412-419).
StartBatch ==
    /\ bpc = "idle"
    /\ \E rs \in RouteLists, cb \in BOOLEAN :
         /\ routes' = rs
         /\ sampling_points' = get_unique_sampling_points(rs)
         /\ on_progress' = cb
         /\ unique_point_list' = first_seen(Flatten(rs), <<>>)
         /\ task' = [i \in 1..Len(first_seen(Flatten(rs), <<>>)) |->
                        [kind |-> "pending"]]
    /\ bpc' = "gather"
    /\ UNCHANGED <<delivered, results_cache, evaluated_routes, route_result>>
    /\ UNCHANGED <<pointVars, resampleVars, handlerVars>>

\* What the progress callback can do with a result.
SinkOutcomes == {"ok", "raised"}

\* AnalyzePoint without the try/except around the callback: the exception of
\* the callback ends the task.
AnalyzePoint_sink_uncaught(i) ==
    /\ bpc = "gather"
    /\ task[i].kind = "pending"
    /\ \/ /\ task' = [task EXCEPT ![i] = [kind |-> "exception"]]
          /\ UNCHANGED delivered
       \/ \E sc \in PointScores, sink \in SinkOutcomes :
            LET res == [kind |-> "result",
                        lat |-> unique_point_list[i].lat,
                        lng |-> unique_point_list[i].lng,
                        score |-> sc]
            IN  /\ task' = [task EXCEPT ![i] =
                               IF on_progress /\ sink = "raised"
                               THEN [kind |-> "exception"] ELSE res]
                /\ delivered' = IF on_progress
                                THEN Append(delivered, [result |-> res, sink |-> sink])
                                ELSE delivered
    /\ UNCHANGED <<routes, sampling_points, bpc, unique_point_list, on_progress, results_cache,
                   evaluated_routes, route_result>>
    /\ UNCHANGED <<pointVars, resampleVars, handlerVars>>

\* analyze_with_callback (navigator.py 244-251): the evaluation of unique point
\* i ends with an exception, or returns a result; the result is handed to the
\* callback if one is attached, and an exception of the callback is caught.
AnalyzePoint(i) ==
    /\ bpc = "gather"
    /\ task[i].kind = "pending"
    /\ \/ /\ task' = [task EXCEPT ![i] = [kind |-> "exception"]]
          /\ UNCHANGED delivered
       \/ \E sc \in PointScores, sink \in SinkOutcomes :
            LET res == [kind |-> "result",
                        lat |-> unique_point_list[i].lat,
                        lng |-> unique_point_list[i].lng,
                        score |-> sc]
            IN  /\ task' = [task EXCEPT ![i] = res]
                /\ delivered' = IF on_progress
                                THEN Append(delivered, [result |-> res, sink |-> sink])
                                ELSE delivered
    /\ UNCHANGED <<routes, sampling_points, bpc, unique_point_list, on_progress, results_cache,
                   evaluated_routes, route_result>>
    /\ UNCHANGED <<pointVars, resampleVars, handlerVars>>

\* navigator.py 260-265: the results of gather that are no exception.
cache_of(results) ==
    [k \in {unique_key(i) : i \in {j \in 1..Len(results) :
                                      results[j].kind = "result"}} |->
        results[CHOOSE i \in 1..Len(results) : unique_key(i) = k]]

\* navigator.py 260-265: the keys the loop assigns in results_cache, in order.
cache_writes(results) ==
    LET written == SelectSeq([i \in 1..Len(results) |-> i],
                             LAMBDA i : results[i].kind = "result")
    IN  [n \in 1..Len(written) |-> unique_key(written[n])]

\* lower_score with the comparison turned round.
lower_score_reversed(score, min_route_score) ==
    IF score > min_route_score THEN score ELSE min_route_score

\* The comparison of navigator.py 283-284.
lower_score(score, min_route_score) ==
    IF score < min_route_score THEN score ELSE min_route_score

RECURSIVE scan_route(_, _, _, _)
\* navigator.py 275-284: the pass over one route's sample points.
scan_route(points, cache, min_route_score, details) ==
    IF points = <<>> THEN [score |-> min_route_score, details |-> details]
    ELSE LET key == point_key(Head(points)) IN
         IF key \in DOMAIN cache
         THEN scan_route(Tail(points), cache,
                         lower_score(cache[key].score, min_route_score),
                         Append(details, cache[key]))
         ELSE scan_route(Tail(points), cache, min_route_score, details)

RECURSIVE evaluate_routes_keep_empty(_, _, _)
\* evaluate_routes without the skip of the routes that have no sample point.
evaluate_routes_keep_empty(rs, idx, cache) ==
    IF idx > Len(rs) THEN <<>>
    ELSE LET scan == scan_route(rs[idx], cache, Pt(100), <<>>) IN
         <<[idx |-> idx, score |-> scan.score, details |-> scan.details]>>
             \o evaluate_routes_keep_empty(rs, idx + 1, cache)

RECURSIVE evaluate_routes(_, _, _)
\* navigator.py 268-298: routes with no sample point are skipped; idx is the
\* position of the route in the candidate list.
evaluate_routes(rs, idx, cache) ==
    IF idx > Len(rs) THEN <<>>
    ELSE IF rs[idx] = <<>> THEN evaluate_routes(rs, idx + 1, cache)
    ELSE LET scan == scan_route(rs[idx], cache, Pt(100), <<>>) IN
         <<[idx |-> idx, score |-> scan.score, details |-> scan.details]>>
             \o evaluate_routes(rs, idx + 1, cache)

\* Aggregate returning as soon as one task has ended with an exception, as
\* gather does without return_exceptions.
Aggregate_first_exception ==
    /\ bpc = "gather"
    /\ \/ \A i \in 1..Len(task) : task[i].kind # "pending"
       \/ \E i \in 1..Len(task) : task[i].kind = "exception"
    /\ results_cache' = cache_of(task)
    /\ evaluated_routes' = evaluate_routes(routes, 1, cache_of(task))
    /\ bpc' = "returned"
    /\ UNCHANGED <<routes, sampling_points, unique_point_list, task, on_progress, delivered,
                   route_result>>
    /\ UNCHANGED <<pointVars, resampleVars, handlerVars>>

\* navigator.py 257-301: gather has settled every task.
Aggregate ==
    /\ bpc = "gather"
    /\ \A i \in 1..Len(task) : task[i].kind # "pending"
    /\ results_cache' = cache_of(task)
    /\ evaluated_routes' = evaluate_routes(routes, 1, cache_of(task))
    /\ bpc' = "returned"
    /\ UNCHANGED <<routes, sampling_points, unique_point_list, task, on_progress, delivered,
                   route_result>>
    /\ UNCHANGED <<pointVars, resampleVars, handlerVars>>

RECURSIVE insert_desc(_, _)
\* Place of e in a list sorted by descending score: behind every element
\* that does not score less.
insert_desc(e, sorted) ==
    IF sorted = <<>> THEN <<e>>
    ELSE IF Head(sorted).score >= e.score
         THEN <<Head(sorted)>> \o insert_desc(e, Tail(sorted))
         ELSE <<e>> \o sorted

RECURSIVE insert_desc_front(_, _)
\* insert_desc placing e in front of the elements of equal score.
insert_desc_front(e, sorted) ==
    IF sorted = <<>> THEN <<e>>
    ELSE IF Head(sorted).score > e.score
         THEN <<Head(sorted)>> \o insert_desc_front(e, Tail(sorted))
         ELSE <<e>> \o sorted

RECURSIVE sort_desc_with(_, _)
sort_desc_with(rs, front) ==
    IF rs = <<>> THEN <<>>
    ELSE LET e == rs[Len(rs)]
             rest == sort_desc_with(SubSeq(rs, 1, Len(rs) - 1), front)
         IN  IF front THEN insert_desc_front(e, rest) ELSE insert_desc(e, rest)

\* sort_by_score_desc losing the input order of routes of equal score.
sort_by_score_desc_unstable(rs) == sort_desc_with(rs, TRUE)

\* evaluated_routes.sort(key=score, reverse=True): the sort is stable, routes
\* of equal score keep their order (main.py 476, navigator.py 126).
sort_by_score_desc(rs) == sort_desc_with(rs, FALSE)

\* remaining_risks with the test d["score"] <= 50.
remaining_risks_inclusive(details) ==
    SelectSeq(details, LAMBDA d : d.score <= Pt(50))

\* [d for d in details if d["score"] < 50] (main.py 488, navigator.py 136).
remaining_risks(details) == SelectSeq(details, LAMBDA d : d.score < Pt(50))

\* main.py 474-493: the selection of the best route.
SelectBest ==
    /\ bpc = "returned"
    /\ IF evaluated_routes # <<>>
       THEN LET sorted == sort_by_score_desc(evaluated_routes)
                best_route == sorted[1]
            IN  /\ evaluated_routes' = sorted
                /\ route_result' =
                       [kind |-> "route",
                        idx |-> best_route.idx,
                        score |-> best_route.score,
                        waypoints |-> best_route.details,
                        remaining_risks |-> remaining_risks(best_route.details)]
       ELSE /\ route_result' = [kind |-> "error",
                                error |-> "No valid routes after analysis"]
            /\ UNCHANGED evaluated_routes
    /\ bpc' = "selected"
    /\ UNCHANGED <<routes, sampling_points, unique_point_list, task, on_progress, delivered,
                   results_cache>>
    /\ UNCHANGED <<pointVars, resampleVars, handlerVars>>

\* The result of _analyze_single_point for a point, the sources being
\* deterministic: the one the task of that point ended with.
point_outcome(point, points, outcomes) ==
    outcomes[CHOOSE i \in 1..Len(points) : points[i] = point]

RECURSIVE fold_results_prepend(_, _, _)
\* fold_results putting every result in front of the details collected so far.
fold_results_prepend(results, min_route_score, details) ==
    IF results = <<>> THEN [score |-> min_route_score, details |-> details]
    ELSE LET res == Head(results) IN
         IF res.kind = "exception"
         THEN fold_results_prepend(Tail(results), min_route_score, details)
         ELSE fold_results_prepend(
                  Tail(results),
                  IF res.score < min_route_score THEN res.score
                                                 ELSE min_route_score,
                  <<res>> \o details)

RECURSIVE fold_results(_, _, _)
\* navigator.py 357-369: the loop over the results of gather; an exception is
\* skipped, a result lowers the minimum and is appended to the details.
fold_results(results, min_route_score, details) ==
    IF results = <<>> THEN [score |-> min_route_score, details |-> details]
    ELSE LET res == Head(results) IN
         IF res.kind = "exception"
         THEN fold_results(Tail(results), min_route_score, details)
         ELSE fold_results(
                  Tail(results),
                  IF res.score < min_route_score THEN res.score
                                                 ELSE min_route_score,
                  Append(details, res))

\* NavigatorAgent._analyze_route_risks (navigator.py 324-379): one task per
\* sample point of the route, gathered with return_exceptions.
analyze_route_risks(sampled_points, points, outcomes) ==
    fold_results([n \in 1..Len(sampled_points) |->
                     point_outcome(sampled_points[n], points, outcomes)],
                 Pt(100), <<>>)

RECURSIVE analyze_each_route(_, _, _, _)
\* navigator.py 115-120 with analyze_single_route (303-322): a route without
\* polyline gives None and is not appended.
analyze_each_route(rs, idx, points, outcomes) ==
    IF idx > Len(rs) THEN <<>>
    ELSE IF rs[idx] = <<>> THEN analyze_each_route(rs, idx + 1, points, outcomes)
    ELSE LET risk_analysis == analyze_route_risks(rs[idx], points, outcomes) IN
         <<[idx |-> idx, score |-> risk_analysis.score,
            details |-> risk_analysis.details]>>
             \o analyze_each_route(rs, idx + 1, points, outcomes)

\* navigator.py 125-138: the route find_safest_route returns.
find_safest_route_best(evaluated) ==
    LET best_route == sort_by_score_desc(evaluated)[1] IN
    [kind |-> "route",
     idx |-> best_route.idx,
     score |-> best_route.score,
     waypoints |-> best_route.details,
     remaining_risks |-> remaining_risks(best_route.details)]

\* The navigator as constructed (navigator.py 27-94), no evaluation entered.
Init ==
    /\ BatchIdle
    /\ ResampleIdle
    /\ HandlersIdle
    /\ is_emergency_mode = FALSE
    /\ active_alerts = {}
    /\ svc = [s \in ServiceNames |-> "ready"]
    /\ pc = "entry"
    /\ point_score = Pt(100)
    /\ current_risks = <<>>
    /\ calls = {}
    /\ some_ok = FALSE
    /\ last = NoReply
    /\ result = NoResult

Next ==
    \/ StartBatch
    \/ \E i \in 1..Len(task) : AnalyzePoint(i)
    \/ Aggregate
    \/ SelectBest

Spec == Init /\ [][Next]_vars

----------------------------------------------------------------------------
(* NavigatorAgent._resample_path *)

\* Path points lie on a grid of one metre, consecutive points on one grid
\* line, so that the distance of two consecutive points and the points
\* interpolated between them are integers.
MaxCoord == 3
MaxPathLen == 3
MaxInterval == 3

Abs(x) == IF x < 0 THEN -x ELSE x

PathPoints == {GeoPoint(lat, lng) : lat \in 0..MaxCoord, lng \in 0..1}

\* geodesic(p1, p2).meters of two points on one grid line.
geodesic_meters(p1, p2) == Abs(p2.lat - p1.lat) + Abs(p2.lng - p1.lng)

Paths ==
    {ps \in UNION {[1..n -> PathPoints] : n \in 0..MaxPathLen} :
        \A i \in 1..(Len(ps) - 1) :
            ps[i].lat = ps[i + 1].lat \/ ps[i].lng = ps[i + 1].lng}

Intervals == 1..MaxInterval

\* navigator.py 589-594: p1 + (p2 - p1) * ratio, the ratio being num / den.
interpolate(p1, p2, num, den) ==
    GeoPoint(p1.lat + ((p2.lat - p1.lat) * num) \div den,
             p1.lng + ((p2.lng - p1.lng) * num) \div den)

RECURSIVE sample_segment_strict(_, _, _, _, _, _, _, _, _, _)
\* sample_segment with the loop test remaining_dist > dist_to_next_sample.
sample_segment_strict(p1, p2, segment_dist, remaining_dist, progress_on_segment, dist_to_next_sample, buffer, interval, acc, ratios) ==
    IF remaining_dist > dist_to_next_sample
    THEN sample_segment_strict(
             p1, p2, segment_dist,
             remaining_dist - dist_to_next_sample,
             progress_on_segment + dist_to_next_sample,
             interval, 0, interval,
             Append(acc, interpolate(p1, p2,
                                     progress_on_segment + dist_to_next_sample,
                                     segment_dist)),
             Append(ratios, <<progress_on_segment + dist_to_next_sample,
                              segment_dist>>))
    ELSE [resampled |-> acc, buffer |-> buffer + remaining_dist, ratios |-> ratios]

RECURSIVE sample_segment_keep_buffer(_, _, _, _, _, _, _, _, _, _)
\* sample_segment without the reset of the buffer when a point is emitted.
sample_segment_keep_buffer(p1, p2, segment_dist, remaining_dist, progress_on_segment, dist_to_next_sample, buffer, interval, acc, ratios) ==
    IF remaining_dist >= dist_to_next_sample
    THEN sample_segment_keep_buffer(
             p1, p2, segment_dist,
             remaining_dist - dist_to_next_sample,
             progress_on_segment + dist_to_next_sample,
             interval, buffer, interval,
             Append(acc, interpolate(p1, p2,
                                     progress_on_segment + dist_to_next_sample,
                                     segment_dist)),
             Append(ratios, <<progress_on_segment + dist_to_next_sample,
                              segment_dist>>))
    ELSE [resampled |-> acc, buffer |-> buffer + remaining_dist, ratios |-> ratios]

RECURSIVE sample_segment(_, _, _, _, _, _, _, _, _, _)
\* navigator.py 586-605: the while loop over one segment and the addition of
\* the rest of the segment to the buffer.
sample_segment(p1, p2, segment_dist, remaining_dist, progress_on_segment, dist_to_next_sample, buffer, interval, acc, ratios) ==
    IF remaining_dist >= dist_to_next_sample
    THEN sample_segment(
             p1, p2, segment_dist,
             remaining_dist - dist_to_next_sample,
             progress_on_segment + dist_to_next_sample,
             interval, 0, interval,
             Append(acc, interpolate(p1, p2,
                                     progress_on_segment + dist_to_next_sample,
                                     segment_dist)),
             Append(ratios, <<progress_on_segment + dist_to_next_sample,
                              segment_dist>>))
    ELSE [resampled |-> acc, buffer |-> buffer + remaining_dist, ratios |-> ratios]

\* navigator.py 549-564.
ResampleStart ==
    /\ rpc = "entry"
    /\ IF path_points = <<>>
       THEN /\ resampled' = <<>>
            /\ rpc' = "done"
       ELSE /\ resampled' = <<path_points[1]>>
            /\ rpc' = "loop"
    /\ current_dist_buffer' = 0
    /\ seg_index' = 1
    /\ UNCHANGED <<path_points, interval_meters, seg_trace>>
    /\ UNCHANGED <<pointVars, batchVars, handlerVars>>

\* navigator.py 566-605: one pass of the for loop.
ResampleSegment ==
    /\ rpc = "loop"
    /\ seg_index <= Len(path_points) - 1
    /\ LET p1 == path_points[seg_index]
           p2 == path_points[seg_index + 1]
           segment_dist == geodesic_meters(p1, p2)
           pass == sample_segment(p1, p2, segment_dist, segment_dist, 0,
                                  interval_meters - current_dist_buffer,
                                  current_dist_buffer, interval_meters,
                                  resampled, <<>>)
       IN  IF segment_dist = 0
           THEN /\ seg_trace' = NoSegment
                /\ UNCHANGED <<resampled, current_dist_buffer>>
           ELSE /\ resampled' = pass.resampled
                /\ current_dist_buffer' = pass.buffer
                /\ seg_trace' = [dist |-> segment_dist, ratios |-> pass.ratios]
    /\ seg_index' = seg_index + 1
    /\ UNCHANGED <<path_points, interval_meters, rpc>>
    /\ UNCHANGED <<pointVars, batchVars, handlerVars>>

\* navigator.py 607-608.
ResampleReturn ==
    /\ rpc = "loop"
    /\ seg_index > Len(path_points) - 1
    /\ rpc' = "done"
    /\ UNCHANGED <<path_points, interval_meters, seg_index, current_dist_buffer,
                   resampled, seg_trace>>
    /\ UNCHANGED <<pointVars, batchVars, handlerVars>>

InitResample ==
    /\ BatchIdle
    /\ HandlersIdle
    /\ is_emergency_mode = FALSE
    /\ active_alerts = {}
    /\ svc = [s \in ServiceNames |-> "ready"]
    /\ pc = "entry"
    /\ point_score = Pt(100)
    /\ current_risks = <<>>
    /\ calls = {}
    /\ some_ok = FALSE
    /\ last = NoReply
    /\ result = NoResult
    /\ path_points \in Paths
    /\ interval_meters \in Intervals
    /\ rpc = "entry"
    /\ seg_index = 0
    /\ current_dist_buffer = 0
    /\ resampled = <<>>
    /\ seg_trace = NoSegment

NextResample ==
    \/ ResampleStart
    \/ ResampleSegment
    \/ ResampleReturn

SpecResample == InitResample /\ [][NextResample]_vars

\* The loops of _resample_path are not interrupted: a call that can take a
\* step takes it.
SpecResampleFair == SpecResample /\ WF_vars(NextResample)

----------------------------------------------------------------------------
(* The request handlers and the navigator they share *)

\* The module-level navigator (main.py 57) serves every request; a handler
\* runs in the thread of its request.  Alert titles are written by the ids
\* of ALERT_TO_HAZARD; the titles get_unified_alerts composes are
\* "weather_advisory" and "weather_warning" (the word for weather followed
\* by the level of a warning), "earthquake_info" and "no_alert".  Special
\* warnings, which the program treats as warnings but for the word in the
\* title, are left out.

WarningTypes == {"heavy_rain", "flood", "storm"}
WarningLevels == {"advisory", "warning"}
Warnings == [type : WarningTypes, level : WarningLevels]

\* Longest list of warnings the weather source answers.
MaxWarnings == 2

WarningLists == UNION {[1..n -> Warnings] : n \in 0..MaxWarnings}

RECURSIVE unique_warnings(_, _)
\* weather_warning_service.py 211-218: the first warning of every type and level.
unique_warnings(all_warnings, seen) ==
    IF all_warnings = <<>> THEN <<>>
    ELSE LET w == Head(all_warnings) IN
         IF w \in seen THEN unique_warnings(Tail(all_warnings), seen)
         ELSE <<w>> \o unique_warnings(Tail(all_warnings), seen \cup {w})

\* weather_warning_service.py 224-238: the kind of the first major warning.
major_alert_type(warning) ==
    CASE warning.type = "heavy_rain" -> "RAIN"
      [] warning.type = "flood" -> "FLOOD"
      [] warning.type = "storm" -> "STORM"

\* WeatherWarningService.get_weather_alerts (weather_warning_service.py
\* 200-245).
get_weather_alerts(all_warnings) ==
    LET warnings == unique_warnings(all_warnings, {})
        major == SelectSeq(warnings,
                           LAMBDA w : w.level \in {"warning"})
    IN  [warnings |-> warnings,
         has_major_alert |-> major # <<>>,
         alert_type |-> IF major # <<>> THEN major_alert_type(major[1])
                                        ELSE "None"]

\* WeatherAlerts(), the value that stands in for a failed weather source.
NoWeatherAlerts == [warnings |-> <<>>, has_major_alert |-> FALSE, alert_type |-> "None"]

WeatherReplies == {get_weather_alerts(ws) : ws \in WarningLists} \cup {NoWeatherAlerts}

\* DisasterAlerts.alert_type (earthquake_service.py 40).
EarthquakeAlertTypes == {"TSUNAMI", "EARTHQUAKE", "None"}

\* The title of the weather alert: f"気象{warnings[0].level}".
weather_title(level) ==
    CASE level = "advisory" -> "weather_advisory"
      [] level = "warning" -> "weather_warning"

\* disaster_alert_service.py 91-100: the title of the weather alert.
weather_alert_title(weather_alerts) ==
    IF weather_alerts.warnings # <<>>
    THEN weather_title(weather_alerts.warnings[1].level)
    ELSE weather_title("warning")

\* DisasterAlertService.get_unified_alerts (disaster_alert_service.py 43-120):
\* the primary alert and should_emergency_mode.
get_unified_alerts(alert_type, weather_alerts) ==
    LET alerts ==
            (IF alert_type = "TSUNAMI"
             THEN <<[type |-> "TSUNAMI", title |-> "tsunami_warning",
                     auto_emergency |-> TRUE]>> ELSE <<>>)
            \o (IF alert_type = "EARTHQUAKE"
                THEN <<[type |-> "EARTHQUAKE", title |-> "earthquake_info",
                        auto_emergency |-> TRUE]>> ELSE <<>>)
            \o (IF weather_alerts.has_major_alert
                THEN <<[type |-> IF weather_alerts.alert_type # "None"
                                 THEN weather_alerts.alert_type ELSE "RAIN",
                        title |-> weather_alert_title(weather_alerts),
                        auto_emergency |-> TRUE]>> ELSE <<>>)
        all == IF alerts = <<>>
               THEN <<[type |-> "NONE", title |-> "no_alert",
                       auto_emergency |-> FALSE]>>
               ELSE alerts
        primary_alert == all[1]
    IN  [primary_alert |-> primary_alert,
         should_emergency_mode |->
             /\ \E n \in 1..Len(all) : all[n].auto_emergency
             /\ primary_alert.type # "NONE"]

\* main.py 157-166, 337-345: alert_info of a primary alert.
alert_info_of(unified_alerts) ==
    [title |-> unified_alerts.primary_alert.title,
     type |-> unified_alerts.primary_alert.type,
     should_emergency_mode |-> unified_alerts.should_emergency_mode]

\* Values of the request field test_alert; "" stands for its absence.
TestAlerts == {"", "heavy_rain_warning"}

\* main.py 295-307: alert_info of a test alert.
test_alert_info(test_alert) ==
    [title |-> test_alert, type |-> "TEST", should_emergency_mode |-> TRUE]

\* main.py 425-431: the list the streaming handler assigns to
\* navigator.active_alerts.
alerts_of(alert_info) ==
    IF alert_info # NoAlertInfo /\ alert_info.title # ""
    THEN {alert_info.title} ELSE {}

\* main.py 71-203 and 255-393: a request arrives and its handler checks the
\* disaster alerts, asks the sentinel for a plan and, when the plan names the
\* navigator, queries the routes.  The alert check can fail as a whole, which
\* leaves alert_info None; only the streaming handler knows test_alert.  The
\* analysis follows when the plan names the navigator and the route query
\* answers candidates.
CheckAlerts(r) ==
    /\ req[r].pc = "idle"
    /\ \E handler \in {"stream", "plain"}, mode \in {"NORMAL", "EMERGENCY"},
          test_alert \in TestAlerts, alert_type \in EarthquakeAlertTypes,
          weather_alerts \in WeatherReplies, failed \in BOOLEAN,
          analysis \in BOOLEAN :
         /\ handler = "plain" => test_alert = ""
         /\ test_alert # "" =>
                /\ alert_type = "None"
                /\ weather_alerts = NoWeatherAlerts
                /\ ~failed
         /\ failed => alert_type = "None" /\ weather_alerts = NoWeatherAlerts
         /\ req' = [req EXCEPT ![r] =
                [NoRequest EXCEPT
                    !.pc = IF ~analysis THEN "respond"
                           ELSE IF handler = "stream" THEN "set_alerts"
                           ELSE "analysis",
                    !.handler = handler,
                    !.mode = mode,
                    !.alert_info =
                        IF test_alert # "" THEN test_alert_info(test_alert)
                        ELSE IF failed THEN NoAlertInfo
                        ELSE alert_info_of(get_unified_alerts(alert_type,
                                                              weather_alerts))]]
    /\ UNCHANGED <<pointVars, batchVars, resampleVars, streamVars, cacheVars>>

\* SetAlerts assigning should_emergency_mode to the mode flag as well.
SetAlerts_and_mode(r) ==
    /\ req[r].pc = "set_alerts"
    /\ active_alerts' = alerts_of(req[r].alert_info)
    /\ is_emergency_mode' = req[r].alert_info.should_emergency_mode
    /\ req' = [req EXCEPT ![r].pc = "analysis"]
    /\ UNCHANGED <<svc, pc, point_score, current_risks, calls,
                   some_ok, last, result>>
    /\ UNCHANGED <<batchVars, resampleVars, streamVars, cacheVars>>

\* main.py 424-431: the streaming handler hands its alert to the navigator.
SetAlerts(r) ==
    /\ req[r].pc = "set_alerts"
    /\ active_alerts' = alerts_of(req[r].alert_info)
    /\ req' = [req EXCEPT ![r].pc = "analysis"]
    /\ UNCHANGED <<is_emergency_mode, svc, pc, point_score, current_risks, calls,
                   some_ok, last, result>>
    /\ UNCHANGED <<batchVars, resampleVars, streamVars, cacheVars>>

\* A point evaluation of the analysis of request r (navigator.py 388-396,
\* 458-464): it reads the mode flag and the alerts of the navigator.
EvaluatePoint(r) ==
    /\ req[r].pc = "analysis"
    /\ req' = [req EXCEPT ![r].evaluated = TRUE,
                          ![r].read = active_alerts,
                          ![r].normal = normal_sources_enabled(is_emergency_mode)]
    /\ UNCHANGED <<pointVars, batchVars, resampleVars, streamVars, cacheVars>>

\* main.py 206-250 and 495-531: the response is sent and the request ends.
Respond(r) ==
    /\ req[r].pc \in {"analysis", "respond"}
    /\ req' = [req EXCEPT ![r] = NoRequest]
    /\ UNCHANGED <<pointVars, batchVars, resampleVars, streamVars, cacheVars>>

\* The server after the construction of the agents (main.py 55-58).
InitServer ==
    /\ BatchIdle
    /\ ResampleIdle
    /\ HandlersIdle
    /\ is_emergency_mode = FALSE
    /\ active_alerts = {}
    /\ svc = [s \in ServiceNames |-> "ready"]
    /\ pc = "entry"
    /\ point_score = Pt(100)
    /\ current_risks = <<>>
    /\ calls = {}
    /\ some_ok = FALSE
    /\ last = NoReply
    /\ result = NoResult

NextServer ==
    \E r \in Requests :
        \/ CheckAlerts(r)
        \/ SetAlerts(r)
        \/ EvaluatePoint(r)
        \/ Respond(r)

SpecServer == InitServer /\ [][NextServer]_vars

----------------------------------------------------------------------------
(* The streaming of the point results (handle_route_request_stream) *)

\* Unique points of the candidates of one request.
MaxStreamPoints == 3

StreamPoints == 1..MaxStreamPoints

AnalysisPoint(p) == [type |-> "analysis_point", point |-> p]

\* main.py 432-447: the queue is created and the analysis is submitted to
\* the executor; its thread evaluates the unique points of the candidates.
Submit ==
    /\ gen_pc = "idle"
    /\ analysis_queue' = <<>>
    /\ worker_left' \in SUBSET StreamPoints
    /\ future' = "running"
    /\ gen_pc' = "poll"
    /\ UNCHANGED stream_events
    /\ UNCHANGED <<pointVars, batchVars, resampleVars, serverVars, cacheVars>>

\* In the thread of the analysis, the evaluation of a point settles
\* (navigator.py 244-251): with an exception, or with a result that
\* point_callback puts on the queue (main.py 435-437).
WorkerPoint(p) ==
    /\ future = "running"
    /\ p \in worker_left
    /\ worker_left' = worker_left \ {p}
    /\ \/ /\ analysis_queue' = Append(analysis_queue, p)
          /\ delivered' = Append(delivered, [result |-> p, sink |-> "ok"])
       \/ UNCHANGED <<analysis_queue, delivered>>
    /\ UNCHANGED <<future, stream_events, gen_pc>>
    /\ UNCHANGED <<routes, bpc, unique_point_list, task, on_progress,
                   results_cache, evaluated_routes, route_result, sampling_points>>
    /\ UNCHANGED <<pointVars, resampleVars, serverVars, cacheVars>>

\* The analysis returns once every evaluation has settled; asyncio.run can
\* also end with an exception of analyze_routes_batch itself.
WorkerEnd ==
    /\ future = "running"
    /\ \/ /\ worker_left = {}
          /\ future' = "done"
       \/ future' = "failed"
    /\ UNCHANGED <<analysis_queue, worker_left, stream_events, gen_pc>>
    /\ UNCHANGED <<pointVars, batchVars, resampleVars, serverVars, cacheVars>>

\* PollTest leaving for the result as soon as the future is done.
PollTest_without_flush ==
    /\ gen_pc = "poll"
    /\ gen_pc' = IF future \in {"done", "failed"} THEN "result" ELSE "get"
    /\ UNCHANGED <<analysis_queue, future, worker_left, stream_events>>
    /\ UNCHANGED <<pointVars, batchVars, resampleVars, serverVars, cacheVars>>

\* main.py 450: the test of the while loop.
PollTest ==
    /\ gen_pc = "poll"
    /\ gen_pc' = IF future \in {"done", "failed"} THEN "flush" ELSE "get"
    /\ UNCHANGED <<analysis_queue, future, worker_left, stream_events>>
    /\ UNCHANGED <<pointVars, batchVars, resampleVars, serverVars, cacheVars>>

\* main.py 451-457: get(timeout=0.1) hands over the oldest item, which is
\* yielded as an analysis_point event, or raises queue.Empty.
PollGet ==
    /\ gen_pc = "get"
    /\ IF analysis_queue # <<>>
       THEN /\ stream_events' = Append(stream_events,
                                       AnalysisPoint(Head(analysis_queue)))
            /\ analysis_queue' = Tail(analysis_queue)
       ELSE UNCHANGED <<stream_events, analysis_queue>>
    /\ gen_pc' = "poll"
    /\ UNCHANGED <<future, worker_left>>
    /\ UNCHANGED <<pointVars, batchVars, resampleVars, serverVars, cacheVars>>

\* main.py 459-465: the items left on the queue when the future is done.
Flush ==
    /\ gen_pc = "flush"
    /\ IF analysis_queue # <<>>
       THEN /\ stream_events' = Append(stream_events,
                                       AnalysisPoint(Head(analysis_queue)))
            /\ analysis_queue' = Tail(analysis_queue)
            /\ UNCHANGED gen_pc
       ELSE /\ gen_pc' = "result"
            /\ UNCHANGED <<stream_events, analysis_queue>>
    /\ UNCHANGED <<future, worker_left>>
    /\ UNCHANGED <<pointVars, batchVars, resampleVars, serverVars, cacheVars>>

\* main.py 468-537: future.result() and the rest of the generator, which
\* ends with the result event, or with the error event when the analysis
\* has raised.
FinalResult ==
    /\ gen_pc = "result"
    /\ stream_events' = Append(stream_events,
                               IF future = "failed" THEN [type |-> "error"]
                                                    ELSE [type |-> "result"])
    /\ gen_pc' = "end"
    /\ UNCHANGED <<analysis_queue, future, worker_left>>
    /\ UNCHANGED <<pointVars, batchVars, resampleVars, serverVars, cacheVars>>

InitStream == InitServer

NextStream ==
    \/ Submit
    \/ \E p \in StreamPoints : WorkerPoint(p)
    \/ WorkerEnd
    \/ PollTest
    \/ PollGet
    \/ Flush
    \/ FinalResult

SpecStream == InitStream /\ [][NextStream]_vars

----------------------------------------------------------------------------
(* The result caches of the tsunami and of the landslide service *)

\* tsunami_service and landslide_service are module-level objects
\* (tsunami_service.py 196, landslide_service.py 174): every point evaluation
\* of every request calls the same two caches.

\* Calls in progress at the same time, the slot of a finished call being
\* taken by the next one.
MaxCalls == 2

\* Rounded coordinate keys the calls are made with.
MaxCacheKeys == 2

Calls == 1..MaxCalls
CacheKeys == 1..MaxCacheKeys
CachingServices == {"tsunami", "landslide"}

NoCall ==
    [pc |-> "idle", service |-> "none", key |-> 0, fetched |-> FALSE,
     result |-> NoRisk]

\* What the tile host can answer to one call.
CacheFetches(service) ==
    IF service = "tsunami"
    THEN {[kind |-> "http404"], [kind |-> "error"],
          [kind |-> "pixel", r |-> 140, g |-> 40, b |-> 200, a |-> 255],
          [kind |-> "pixel", r |-> 240, g |-> 230, b |-> 40, a |-> 255]}
    ELSE {[kind |-> "error"], [kind |-> "tiles", marked |-> {}],
          [kind |-> "tiles", marked |-> {2}]}

\* The result of the call computed from the answer of the tile host
\* (tsunami_service.py 55, landslide_service.py 54-62).
fetched_result(service, fetch) ==
    IF service = "tsunami" THEN check_tile(fetch) ELSE check_landslide_risk(fetch)

\* self._cache[cache_key] = result
cache_store(cache, k, res) ==
    [x \in DOMAIN cache \cup {k} |-> IF x = k THEN res ELSE cache[x]]

\* tsunami_service.py 51-53, landslide_service.py 50-52: the call looks its
\* key up and returns the entry, or goes on to the fetch of the tile.
CacheLookup(c) ==
    /\ hcall[c].pc = "idle"
    /\ \E service \in CachingServices, key \in CacheKeys :
         hcall' = [hcall EXCEPT ![c] =
             IF <<service, key>> \in DOMAIN hazard_cache
             THEN [pc |-> "returned", service |-> service, key |-> key,
                   fetched |-> FALSE, result |-> hazard_cache[<<service, key>>]]
             ELSE [pc |-> "fetching", service |-> service, key |-> key,
                   fetched |-> TRUE, result |-> NoRisk]]
    /\ UNCHANGED hazard_cache
    /\ UNCHANGED <<pointVars, batchVars, resampleVars, serverVars, streamVars>>

\* tsunami_service.py 55-57, landslide_service.py 54-64: the awaited tile
\* check returns, the result is stored under the key and returned.
CacheFetchReturn(c) ==
    /\ hcall[c].pc = "fetching"
    /\ \E fetch \in CacheFetches(hcall[c].service) :
         LET res == fetched_result(hcall[c].service, fetch) IN
         /\ hazard_cache' = cache_store(hazard_cache,
                                        <<hcall[c].service, hcall[c].key>>, res)
         /\ hcall' = [hcall EXCEPT ![c].pc = "returned", ![c].result = res]
    /\ UNCHANGED <<pointVars, batchVars, resampleVars, serverVars, streamVars>>

\* The caller has taken the result.
CacheCallEnd(c) ==
    /\ hcall[c].pc = "returned"
    /\ hcall' = [hcall EXCEPT ![c] = NoCall]
    /\ UNCHANGED hazard_cache
    /\ UNCHANGED <<pointVars, batchVars, resampleVars, serverVars, streamVars>>

\* The services as constructed (tsunami_service.py 37-39, landslide_service.py
\* 36-38): empty caches, no call.
InitHazardCache ==
    /\ BatchIdle
    /\ ResampleIdle
    /\ ServerIdle
    /\ StreamIdle
    /\ hazard_cache = <<>>
    /\ hcall = [c \in Calls |-> NoCall]
    /\ is_emergency_mode = FALSE
    /\ active_alerts = {}
    /\ svc = [s \in ServiceNames |-> "ready"]
    /\ pc = "entry"
    /\ point_score = Pt(100)
    /\ current_risks = <<>>
    /\ calls = {}
    /\ some_ok = FALSE
    /\ last = NoReply
    /\ result = NoResult

NextHazardCache ==
    \E c \in Calls :
        \/ CacheLookup(c)
        \/ CacheFetchReturn(c)
        \/ CacheCallEnd(c)

SpecHazardCache == InitHazardCache /\ [][NextHazardCache]_vars

----------------------------------------------------------------------------
(* Properties of the point evaluation (SpecPoint) *)

NormalSources == {"analyst", "solar", "places"}
HazardSources == {"flood", "tsunami", "landslide"}
NormalTags == {"VIBE_RISK", "SHADOW_RISK", "SAFETY_BONUS"}

Count(tag, tags) == Cardinality({i \in 1..Len(tags) : tags[i] = tag})

\* Depth categories of TsunamiService from the shallowest to the deepest
\* (tsunami_service.py 10-16).
TsunamiCategories ==
    <<TUnder03m, T03mTo1m, T1mTo2m, T2mTo5m, T5mTo10m, T10mOrMore>>

DepthRank(label) == CHOOSE i \in 1..Len(TsunamiCategories) : TsunamiCategories[i] = label

\* C1: whatever the sources answered, the mode and the alerts, the score
\* returned by the point evaluation lies in [0,100], also when the running
\* sum of the deltas left that range.
C1_ScoreInRange ==
    pc = "done" => (0 <= result.score /\ result.score <= Pt(100))

C1_Witness ==
    /\ pc = "done"
    /\ point_score > Pt(100)
    /\ result.score = Pt(100)

C1_WitnessBelowZero ==
    /\ pc = "done"
    /\ point_score < 0
    /\ result.score = 0

\* C5: in emergency mode the analyst, the solar and the places source are
\* never awaited, and no VIBE_RISK, SHADOW_RISK or SAFETY_BONUS factor is
\* recorded or returned.
C5_EmergencySkipsNormalSources ==
    is_emergency_mode =>
        /\ calls \cap NormalSources = {}
        /\ \A t \in NormalTags :
               Count(t, current_risks) = 0 /\ Count(t, result.risks) = 0

C5_Witness ==
    /\ is_emergency_mode
    /\ pc = "done"
    /\ \A s \in ServiceNames : svc[s] = "ready"
    /\ "flood" \in calls
    /\ result.risks = <<"FLOOD_HAZARD">>

\* C6: a hazard source is awaited only if active_alerts holds an alert that
\* ALERT_TO_HAZARD maps to its category; with no alert none is awaited, and
\* with the heavy-rain warning alone only the flood source is.
C6_HazardGatedByAlert ==
    /\ \A c \in HazardSources :
           c \in calls =>
               \E a \in active_alerts \cap DOMAIN ALERT_TO_HAZARD :
                   ALERT_TO_HAZARD[a] = c
    /\ active_alerts = {} => calls \cap HazardSources = {}
    /\ active_alerts = {"heavy_rain_warning"} =>
           calls \cap HazardSources \subseteq {"flood"}

C6_Witness ==
    /\ active_alerts = {"heavy_rain_warning"}
    /\ pc = "done"
    /\ \A s \in ServiceNames : svc[s] = "ready"
    /\ calls \cap HazardSources = {"flood"}

\* C7: a flood hit whose depth label contains "0.5m~" costs 20 points.
C7_HalfMetreTierIs20 ==
    (last.src = "flood" /\ last.hit /\ Contains(S05mFrom, last.label))
        => last.delta = -Pt(20)

\* C8: a flood hit subtracts one penalty and records one FLOOD_HAZARD factor:
\* 50 if the label contains "10m", otherwise 35 if it contains "5m" or "3m",
\* and 10 for any other or missing label; with the flood source alone
\* contributing and label "3m" the returned score is 65.
C8_FloodTier(label) ==
    IF Contains(S10m, label) THEN 50
    ELSE IF Contains(S5m, label) \/ Contains(S3m, label) THEN 35
    ELSE 10

C8_FloodPenalty ==
    /\ (last.src = "flood" /\ last.hit) =>
           /\ last.delta = -Pt(C8_FloodTier(last.label))
           /\ last.factors = 1
           /\ Count("FLOOD_HAZARD", current_risks) = 1
    /\ (last.src = "flood" /\ ~last.hit) => Count("FLOOD_HAZARD", current_risks) = 0
    /\ (/\ pc = "done"
        /\ last.src = "flood"
        /\ last.hit
        /\ last.label = S3m
        /\ result.risks = <<"FLOOD_HAZARD">>) => result.score = Pt(65)

C8_Witness ==
    /\ pc = "done"
    /\ ~is_emergency_mode
    /\ active_alerts = {"heavy_rain_warning"}
    /\ last.src = "flood"
    /\ last.hit
    /\ last.label = S3m
    /\ result.risks = <<"FLOOD_HAZARD">>
    /\ result.score = Pt(65)

\* C9: a tsunami hit subtracts one penalty and records one TSUNAMI_HAZARD
\* factor: 60 if the label contains "10m", otherwise 45 if it contains "5m",
\* otherwise 30 if it contains "2m" or "1m", otherwise 15; and no category
\* the tsunami service returns for a shallower depth costs more.
C9_TsunamiTier(label) ==
    IF Contains(S10m, label) THEN 60
    ELSE IF Contains(S5m, label) THEN 45
    ELSE IF Contains(S2m, label) \/ Contains(S1m, label) THEN 30
    ELSE 15

C9_TsunamiPenalty ==
    (last.src = "tsunami" /\ last.hit) =>
        /\ last.delta = -Pt(C9_TsunamiTier(last.label))
        /\ last.factors = 1
        /\ Count("TSUNAMI_HAZARD", current_risks) = 1
        /\ \E i \in 1..Len(TsunamiCategories) : TsunamiCategories[i] = last.label
        /\ \A i \in 1..Len(TsunamiCategories) :
               i <= DepthRank(last.label) =>
                   Pt(tsunami_penalty(TsunamiCategories[i])) <= -last.delta

C9_Witness ==
    /\ last.src = "tsunami"
    /\ last.hit
    /\ last.label = T5mTo10m
    /\ last.delta = -Pt(60)
    /\ pc = "done"

\* C10: a source that fails (raises, or cannot produce its analysis) adds no
\* delta and no factor; a point whose awaited sources all failed is returned
\* with score 100 and no risk factor.
C10_FailedSourceContributesNothing ==
    /\ last.status \in {"degraded", "raised"} =>
           (last.delta = 0 /\ last.factors = 0)
    /\ (pc = "done" /\ calls # {} /\ ~some_ok) =>
           (result.score = Pt(100) /\ result.risks = <<>>)

\* C11: when the amenity source raises in normal mode the evaluation goes on
\* to the hazard checks with the score and the factors the vibe and the
\* shading check left, exactly as after an answer without bonus; no exception
\* ends the evaluation, and the result returned carries no SAFETY_BONUS factor.
C11_PlacesRaised == last.src = "places" /\ last.status = "raised"

C11_AmenityRaiseIsolated ==
    /\ [](C11_PlacesRaised =>
             /\ ~is_emergency_mode
             /\ pc \in {"flood", "tsunami", "landslide", "clamp", "done"}
             /\ Count("SAFETY_BONUS", current_risks) = 0
             /\ pc = "done" =>
                    /\ result.score = clamp(point_score)
                    /\ result.risks = current_risks)
    /\ [][(pc = "places" /\ C11_PlacesRaised') =>
             /\ point_score' = point_score
             /\ current_risks' = current_risks
             /\ pc' = "flood"
             /\ \E run \in PlacesRuns :
                    /\ run.kind = "ok"
                    /\ evaluate_safety_bonus(run.places).bonus = 0
                    /\ <<point_score', current_risks', pc', calls', result'>>
                           = <<point_score + Pt(evaluate_safety_bonus(run.places).bonus),
                               current_risks, "flood", calls \cup {"places"}, result>>]_vars

C11_Witness ==
    /\ C11_PlacesRaised
    /\ pc = "done"
    /\ calls = NormalSources
    /\ result.risks = <<"VIBE_RISK", "SHADOW_RISK">>
    /\ result.score = Pt(100) - vibe_penalty(60) - Pt(SolarDeduction)

\* C18: what the places check adds to the score and records is what some
\* list of nearby amenities is worth: 10 for a police station, 8 for a
\* hospital or a fire station, 5 for a convenience store, nothing for any
\* other place, the sum capped at 20; if the capped sum is positive it is
\* added and one SAFETY_BONUS factor is recorded for each amenity that is
\* worth something, otherwise nothing is added and nothing recorded.
C18_Worth(p) ==
    CASE p = "police" -> 10
      [] p \in {"hospital", "fire_station"} -> 8
      [] p = "convenience_store" -> 5
      [] OTHER -> 0

C18_Total(ps) ==
    LET RECURSIVE total(_)
        total(n) == IF n = 0 THEN 0 ELSE C18_Worth(ps[n]) + total(n - 1)
    IN  total(Len(ps))

C18_Contributing(ps) == Cardinality({n \in 1..Len(ps) : C18_Worth(ps[n]) > 0})

C18_AmenityBonusCapped ==
    (last.src = "places" /\ last.status # "raised") =>
        /\ ~is_emergency_mode
        /\ 0 <= last.delta /\ last.delta <= Pt(20)
        /\ Count("SAFETY_BONUS", current_risks) = last.factors
        /\ last.delta = 0 => last.factors = 0
        /\ \E ps \in PlaceLists :
               LET bonus == Min(C18_Total(ps), 20) IN
               /\ last.delta = Pt(bonus)
               /\ last.factors = IF bonus > 0 THEN C18_Contributing(ps) ELSE 0

C18_Witness ==
    /\ last.src = "places"
    /\ last.status = "ok"
    /\ last.delta = Pt(20)
    /\ last.factors = 3
    /\ pc = "done"
    /\ Count("SAFETY_BONUS", result.risks) = 3
    /\ Count("VIBE_RISK", result.risks) = 1
    /\ result.score = Pt(100) - vibe_penalty(0) + Pt(20)

\* C19: when the analyst answered the safety score v, 0 <= v <= 100, the
\* vibe check subtracts (100 - v) * 0.2 points, and records one VIBE_RISK
\* factor if v < 100 and none if v = 100.
C19_VibePenalty ==
    (last.src = "analyst" /\ last.status = "ok"
        /\ 0 <= last.label[1] /\ last.label[1] <= 100) =>
        /\ ~is_emergency_mode
        /\ -last.delta * 10 = (100 - last.label[1]) * 2 * ScoreUnitsPerPoint
        /\ last.factors = IF last.label[1] < 100 THEN 1 ELSE 0
        /\ Count("VIBE_RISK", current_risks) = last.factors

C19_Witness ==
    /\ last.src = "analyst"
    /\ last.status = "ok"
    /\ last.label = <<60>>
    /\ pc = "solar"
    /\ point_score = Pt(92)
    /\ current_risks = <<"VIBE_RISK">>

C19_WitnessNoPenalty ==
    /\ last.src = "analyst"
    /\ last.status = "ok"
    /\ last.label = <<100>>
    /\ pc = "solar"
    /\ point_score = Pt(100)
    /\ current_risks = <<>>

\* C22: every point evaluation ends, with a result or with an exception,
\* whatever the sources do: a source that never answers is cut off by the
\* timeout of its query and only fails its own sub-evaluation.
C22_PointEvaluationCompletes == <>(pc \in {"done", "raised"})

----------------------------------------------------------------------------
(* Properties of the batch run and of the route selection (Spec) *)

Returned == bpc \in {"returned", "selected"}

Scores(details) == [i \in 1..Len(details) |-> details[i].score]

\* C2: a returned route with at least one evaluated sample point scores the
\* minimum of the scores of the point results in its details.
C2_RouteScoreIsMinimum ==
    Returned =>
        \A n \in 1..Len(evaluated_routes) :
            LET e == evaluated_routes[n] IN
            e.details # <<>> =>
                /\ \E i \in 1..Len(e.details) : e.details[i].score = e.score
                /\ \A i \in 1..Len(e.details) : e.score <= e.details[i].score

C2_Witness ==
    /\ Returned
    /\ \E n \in 1..Len(evaluated_routes) :
           /\ Scores(evaluated_routes[n].details) = <<Pt(90), Pt(40), Pt(70)>>
           /\ evaluated_routes[n].score = Pt(40)

\* C3: a route with sample points of which none has a cache entry is not
\* among the evaluated routes, and is never the route selected.
C3_UnscoredRouteExcluded ==
    Returned =>
        \A n \in 1..Len(evaluated_routes) :
            \E i \in 1..Len(routes[evaluated_routes[n].idx]) :
                point_key(routes[evaluated_routes[n].idx][i])
                    \in DOMAIN results_cache

\* C4: the selected route scores highest among the evaluated routes, and of
\* the routes that score highest it is the first of the candidate list.
C4_BestIsFirstHighest ==
    (bpc = "selected" /\ route_result.kind = "route") =>
        /\ \E n \in 1..Len(evaluated_routes) :
               /\ evaluated_routes[n].idx = route_result.idx
               /\ evaluated_routes[n].score = route_result.score
        /\ \A n \in 1..Len(evaluated_routes) :
               LET e == evaluated_routes[n] IN
               /\ e.score <= route_result.score
               /\ e.score = route_result.score => route_result.idx <= e.idx

C4_Witness ==
    /\ bpc = "selected"
    /\ route_result.kind = "route"
    /\ route_result.score = Pt(50)
    /\ route_result.idx = 1
    /\ \E n \in 1..Len(evaluated_routes) :
           /\ evaluated_routes[n].idx = 2
           /\ evaluated_routes[n].score = Pt(50)

\* C12: one batch run gives the evaluator one task for each distinct pair of
\* latitude and longitude rounded to 4 decimals among the sample points of
\* all candidates, the point of the task being the first sample point of
\* that key; no cache key is assigned twice; and every sample point of a
\* returned route whose key is cached appears in the details as the one
\* result of its key.
C12_Key(p) == <<round4(p.lat), round4(p.lng)>>

C12_AllPoints == Flatten(routes)

C12_OncePerKey ==
    /\ bpc # "idle" =>
           /\ Len(task) = Len(unique_point_list)
           /\ Len(task) = Cardinality({C12_Key(C12_AllPoints[j]) :
                                         j \in 1..Len(C12_AllPoints)})
           /\ \A i \in 1..Len(unique_point_list) :
                  \E j \in 1..Len(C12_AllPoints) :
                      /\ C12_AllPoints[j] = unique_point_list[i]
                      /\ \A h \in 1..(j - 1) :
                             C12_Key(C12_AllPoints[h]) # C12_Key(C12_AllPoints[j])
           /\ \A i \in 1..Len(task) :
                  task[i].kind = "result" =>
                      /\ task[i].lat = unique_point_list[i].lat
                      /\ task[i].lng = unique_point_list[i].lng
           /\ \A m, n \in 1..Len(cache_writes(task)) :
                  cache_writes(task)[m] = cache_writes(task)[n] => m = n
    /\ Returned =>
           \A n \in 1..Len(evaluated_routes) :
               LET e == evaluated_routes[n]
                   cached == SelectSeq(routes[e.idx],
                                       LAMBDA q : C12_Key(q) \in DOMAIN results_cache)
               IN  /\ Len(e.details) = Len(cached)
                   /\ \A i \in 1..Len(cached) :
                          /\ e.details[i] = results_cache[C12_Key(cached[i])]
                          /\ C12_Key(e.details[i]) = C12_Key(cached[i])

C12_Witness ==
    /\ Returned
    /\ routes = <<<<PA, PB>>, <<PA2, PC>>>>
    /\ Len(task) = 3
    /\ Len(evaluated_routes) = 2
    /\ Len(evaluated_routes[2].details) = 2
    /\ evaluated_routes[2].details[1] = evaluated_routes[1].details[1]
    /\ evaluated_routes[2].details[1].lat = PA.lat

\* C13: a task that ends with an exception has no cache entry and leaves its
\* siblings as they are: a pending sibling can still be evaluated, every task
\* that returned a result has that result in the cache under its key, and the
\* batch returns only when no task is pending.
C13_ExceptionIsolated ==
    /\ [](bpc = "gather" =>
             \A i \in 1..Len(task) :
                 task[i].kind = "pending" => ENABLED AnalyzePoint(i))
    /\ [](Returned =>
             \A i \in 1..Len(task) :
                 /\ task[i].kind # "pending"
                 /\ task[i].kind = "exception" =>
                        unique_key(i) \notin DOMAIN results_cache
                 /\ task[i].kind = "result" =>
                        /\ unique_key(i) \in DOMAIN results_cache
                        /\ results_cache[unique_key(i)] = task[i])
    /\ [][\A i \in 1..Len(task) :
             (task[i].kind = "pending" /\ task'[i].kind = "exception") =>
                 /\ bpc' = "gather"
                 /\ \A j \in (1..Len(task)) \ {i} : task'[j] = task[j]]_vars

C13_Witness ==
    /\ Returned
    /\ Len(task) = 3
    /\ task[1].kind = "result"
    /\ task[2].kind = "exception"
    /\ task[3].kind = "result"
    /\ DOMAIN results_cache = {unique_key(1), unique_key(3)}

\* C14: with a progress callback attached, every result a task returned has
\* been handed to the callback exactly once when the batch returns, and only
\* such results are handed over; a result whose callback raised is kept by
\* its task and cached like any other; without a callback nothing is handed
\* over; and the routes returned are those computed from the candidates and
\* the tasks' results alone.
C14_ResultTasks == {i \in 1..Len(task) : task[i].kind = "result"}

C14_ProgressDelivery ==
    /\ ~on_progress => delivered = <<>>
    /\ on_progress =>
           /\ Len(delivered) = Cardinality(C14_ResultTasks)
           /\ \A i \in C14_ResultTasks :
                  Cardinality({n \in 1..Len(delivered) :
                                  delivered[n].result = task[i]}) = 1
           /\ \A n \in 1..Len(delivered) :
                  \E i \in C14_ResultTasks : task[i] = delivered[n].result
    /\ (Returned /\ on_progress) =>
           \A n \in 1..Len(delivered) :
               LET key == point_key(delivered[n].result) IN
               /\ key \in DOMAIN results_cache
               /\ results_cache[key] = delivered[n].result
    /\ Returned =>
           evaluated_routes \in
               {sort_by_score_desc(evaluate_routes(routes, 1, cache_of(task))),
                evaluate_routes(routes, 1, cache_of(task))}

C14_Witness ==
    /\ Returned
    /\ on_progress
    /\ Len(delivered) = 2
    /\ delivered[1].sink = "raised"
    /\ delivered[2].sink = "ok"
    /\ \E i \in 1..Len(task) : task[i].kind = "exception"
    /\ \E n \in 1..Len(evaluated_routes) :
           \E i \in 1..Len(evaluated_routes[n].details) :
               evaluated_routes[n].details[i] = delivered[1].result

\* C15: a request whose route source answered no candidate ends with an error
\* other than the one of a request whose candidates all stayed without a
\* scored point, which ends with "No valid routes after analysis".
C15_NoCandidate == routes = <<>>

C15_NoScoredPoint ==
    /\ routes # <<>>
    /\ \A r \in 1..Len(routes) :
           \A i \in 1..Len(routes[r]) :
               point_key(routes[r][i]) \notin DOMAIN results_cache

C15_DistinctErrorOutcomes ==
    bpc = "selected" =>
        /\ C15_NoCandidate =>
               /\ route_result.kind = "error"
               /\ route_result.error # "No valid routes after analysis"
        /\ C15_NoScoredPoint =>
               /\ route_result.kind = "error"
               /\ route_result.error = "No valid routes after analysis"

\* C16: a candidate without sample points (no polyline) is not among the
\* routes the batch returns, every other candidate is, and one of them is
\* selected; when no candidate has a sample point the batch returns no route
\* and the request ends with the error "No valid routes after analysis".
C16_EmptyPolylineSkipped ==
    /\ Returned =>
           /\ \A n \in 1..Len(evaluated_routes) :
                  routes[evaluated_routes[n].idx] # <<>>
           /\ \A r \in 1..Len(routes) :
                  routes[r] # <<>> =>
                      \E n \in 1..Len(evaluated_routes) : evaluated_routes[n].idx = r
    /\ bpc = "selected" =>
           IF \A r \in 1..Len(routes) : routes[r] = <<>>
           THEN /\ evaluated_routes = <<>>
                /\ route_result = [kind |-> "error",
                                   error |-> "No valid routes after analysis"]
           ELSE /\ route_result.kind = "route"
                /\ routes[route_result.idx] # <<>>

C16_Witness ==
    /\ bpc = "selected"
    /\ routes = <<<<>>, <<PA, PB>>>>
    /\ Len(evaluated_routes) = 1
    /\ route_result.kind = "route"
    /\ route_result.idx = 2
    /\ Len(route_result.waypoints) = 2

C16_WitnessAllEmpty ==
    /\ bpc = "selected"
    /\ routes = <<<<>>, <<>>>>
    /\ route_result.kind = "error"

----------------------------------------------------------------------------
(* Properties of _resample_path (SpecResample) *)

RECURSIVE PathLength(_)
PathLength(ps) ==
    IF Len(ps) < 2 THEN 0
    ELSE Abs(ps[2].lat - ps[1].lat) + Abs(ps[2].lng - ps[1].lng)
             + PathLength(Tail(ps))

Sign(x) == IF x > 0 THEN 1 ELSE IF x < 0 THEN -1 ELSE 0

\* The point at arc length s, 0 < s <= PathLength(ps), along ps.
PointAtArc(ps, s) ==
    LET i == CHOOSE j \in 1..(Len(ps) - 1) :
                 /\ PathLength(SubSeq(ps, 1, j)) < s
                 /\ s <= PathLength(SubSeq(ps, 1, j + 1))
        along == s - PathLength(SubSeq(ps, 1, i))
    IN  [lat |-> ps[i].lat + Sign(ps[i + 1].lat - ps[i].lat) * along,
         lng |-> ps[i].lng + Sign(ps[i + 1].lng - ps[i].lng) * along]

CeilDiv(a, b) == (a + b - 1) \div b

\* C17: for a path of length D and an interval I the list returned is the
\* first point of the path followed by the points at arc length I, 2I, ...,
\* floor(D/I)*I, in this order: 1 + floor(D/I) points, which is within one of
\* ceil(D/I); for the empty path it is the empty list.
C17_ResampledAtMultiples ==
    rpc = "done" =>
        IF path_points = <<>> THEN resampled = <<>>
        ELSE LET D == PathLength(path_points)
                 I == interval_meters
             IN  /\ Len(resampled) = 1 + D \div I
                 /\ resampled[1] = path_points[1]
                 /\ \A k \in 1..(D \div I) :
                        resampled[k + 1] = PointAtArc(path_points, k * I)
                 /\ Abs(Len(resampled) - CeilDiv(D, I)) <= 1

C17_Witness ==
    /\ rpc = "done"
    /\ interval_meters = 2
    /\ path_points = <<GeoPoint(0, 0), GeoPoint(3, 0), GeoPoint(3, 1)>>
    /\ resampled = <<GeoPoint(0, 0), GeoPoint(2, 0), GeoPoint(3, 1)>>

\* C20: the remaining risks of the selected route are the point results of
\* its details that score strictly less than 50, in the order of the details;
\* each of them is a result the batch has in its cache, and the selection
\* starts no evaluation and changes no task, cache entry or point evaluation.
C20_Below50(details) ==
    {i \in 1..Len(details) : details[i].score * 2 < Pt(100)}

C20_RemainingRisks ==
    /\ []((bpc = "selected" /\ route_result.kind = "route") =>
             LET details == route_result.waypoints
                 risks == route_result.remaining_risks
             IN  /\ \E n \in 1..Len(evaluated_routes) :
                        /\ evaluated_routes[n].idx = route_result.idx
                        /\ evaluated_routes[n].details = details
                 /\ Len(risks) = Cardinality(C20_Below50(details))
                 /\ \A n \in 1..Len(risks) :
                        \E i \in C20_Below50(details) :
                            /\ details[i] = risks[n]
                            /\ Cardinality({j \in C20_Below50(details) : j < i})
                                   = n - 1
                 /\ \A n \in 1..Len(risks) :
                        /\ point_key(risks[n]) \in DOMAIN results_cache
                        /\ results_cache[point_key(risks[n])] = risks[n])
    /\ [][bpc = "returned" =>
             /\ task' = task
             /\ results_cache' = results_cache
             /\ delivered' = delivered
             /\ calls' = calls
             /\ pc' = pc]_vars

C20_Witness ==
    /\ bpc = "selected"
    /\ route_result.kind = "route"
    /\ Scores(route_result.waypoints) = <<Pt(40), Pt(50), Pt(40)>>
    /\ Scores(route_result.remaining_risks) = <<Pt(40), Pt(40)>>

\* C30: _resample_path returns for every path and interval; after each
\* processed segment the carried buffer is at least 0 and less than the
\* interval; a segment of length zero emits no point and leaves the buffer
\* as it was; and every point emitted lies on its segment, at a ratio
\* between 0 and 1.
C30_ResampleTerminatesInBounds ==
    /\ <>(rpc = "done")
    /\ [](rpc \in {"loop", "done"} =>
             /\ 0 <= current_dist_buffer
             /\ current_dist_buffer < interval_meters
             /\ \A n \in 1..Len(seg_trace.ratios) :
                    /\ 0 <= seg_trace.ratios[n][1]
                    /\ seg_trace.ratios[n][1] <= seg_trace.ratios[n][2]
                    /\ seg_trace.ratios[n][2] = seg_trace.dist)
    /\ [][(rpc = "loop" /\ seg_index' = seg_index + 1) =>
             /\ Len(resampled') = Len(resampled) + Len(seg_trace'.ratios)
             /\ SubSeq(resampled', 1, Len(resampled)) = resampled
             /\ (path_points[seg_index] = path_points[seg_index + 1]) =>
                    /\ resampled' = resampled
                    /\ current_dist_buffer' = current_dist_buffer]_vars

C30_Witness ==
    /\ rpc = "done"
    /\ interval_meters = 2
    /\ path_points = <<GeoPoint(0, 0), GeoPoint(1, 0), GeoPoint(1, 0)>>
    /\ current_dist_buffer = 1
    /\ resampled = <<GeoPoint(0, 0)>>

C30_WitnessRatios ==
    /\ rpc = "done"
    /\ interval_meters = 1
    /\ seg_trace = [dist |-> 3, ratios |-> <<<<1, 3>>, <<2, 3>>, <<3, 3>>>>]

\* C27: the points get_unique_sampling_points returns for the candidates,
\* which the handler sends to the client before the analysis, are the unique
\* points the batch evaluates: the same points in the same order, so the same
\* keys with the same first-seen coordinates.
C27_PreviewEqualsEvaluated ==
    bpc # "idle" =>
        /\ sampling_points = unique_point_list
        /\ Len(sampling_points) = Len(task)
        /\ \A i \in 1..Len(sampling_points) :
               point_key(sampling_points[i]) = unique_key(i)

C27_Witness ==
    /\ bpc = "gather"
    /\ routes = <<<<PA, PB>>, <<PA2, PC>>>>
    /\ sampling_points = <<PA, PB, PC>>
    /\ unique_point_list = <<PA, PB, PC>>

\* C28: when the sample points of the candidates have pairwise distinct keys
\* and a point is evaluated to the same outcome whenever it is evaluated, the
\* per-route analysis (analyze_single_route for every candidate) gives the
\* routes the batch returns, each with the same score and the same details in
\* the same order, and the best route chosen from either list is the same.
C28_DistinctKeys ==
    \A i, j \in 1..Len(Flatten(routes)) :
        point_key(Flatten(routes)[i]) = point_key(Flatten(routes)[j]) => i = j

C28_PerRoute == analyze_each_route(routes, 1, unique_point_list, task)

C28_PerRouteEqualsBatch ==
    C28_DistinctKeys =>
        /\ bpc = "returned" => evaluated_routes = C28_PerRoute
        /\ bpc = "selected" =>
               /\ evaluated_routes = sort_by_score_desc(C28_PerRoute)
               /\ (route_result.kind = "route") = (C28_PerRoute # <<>>)
               /\ route_result.kind = "route" =>
                      route_result = find_safest_route_best(C28_PerRoute)

C28_Witness ==
    /\ C28_DistinctKeys
    /\ bpc = "selected"
    /\ Len(routes) = 2
    /\ Len(routes[1]) = 2
    /\ \E i \in 1..Len(task) : task[i].kind = "exception"
    /\ route_result.kind = "route"
    /\ route_result.idx = 2
    /\ Len(evaluated_routes[2].details) = 2
    /\ evaluated_routes[2].details[1].score < evaluated_routes[2].details[2].score

----------------------------------------------------------------------------
(* Properties of the request handlers (SpecServer) *)

\* C21: the alerts a point evaluation of a streaming request reads are the
\* ones that request handed to the navigator, whatever other requests do in
\* the meantime.
C21_RunReadsOwnAlerts ==
    \A r \in Requests :
        (req[r].handler = "stream" /\ req[r].evaluated) =>
            req[r].read = alerts_of(req[r].alert_info)

\* C24: no handler assigns the mode flag of the navigator: it is false in
\* every state, whatever mode and alerts the requests carried, and every
\* point evaluation finds the normal-mode sources enabled.
C24_ModeFlagNeverSet ==
    /\ is_emergency_mode = FALSE
    /\ \A r \in Requests : req[r].evaluated => req[r].normal

C24_Witness ==
    \E r \in Requests :
        /\ req[r].handler = "stream"
        /\ req[r].mode = "EMERGENCY"
        /\ req[r].alert_info.should_emergency_mode
        /\ req[r].alert_info.type = "TSUNAMI"
        /\ active_alerts = {"tsunami_warning"}
        /\ req[r].evaluated
        /\ req[r].normal

\* C25: the alerts a point evaluation of the non-streaming handler reads are
\* the ones of the alert check of its own request, never the ones an earlier
\* request left in the navigator.
C25_PlainRunReadsOwnAlerts ==
    \A r \in Requests :
        (req[r].handler = "plain" /\ req[r].evaluated) =>
            /\ req[r].read \subseteq alerts_of(req[r].alert_info)
            /\ req[r].read = alerts_of(req[r].alert_info)

\* C26: the alert a streaming request hands to the navigator enables the
\* flood source when its primary alert is a major heavy-rain or flood
\* warning, and the tsunami source when it is a tsunami warning.
C26_StoredAlertEnablesHazard ==
    \A r \in Requests :
        (req[r].handler = "stream" /\ req[r].pc = "analysis") =>
            /\ req[r].alert_info.type \in {"RAIN", "FLOOD"} =>
                   is_hazard_alert_active(alerts_of(req[r].alert_info), "flood")
            /\ req[r].alert_info.type = "TSUNAMI" =>
                   is_hazard_alert_active(alerts_of(req[r].alert_info), "tsunami")

----------------------------------------------------------------------------
(* Properties of the streaming of the point results (SpecStream) *)

RECURSIVE C23_Points(_)
\* The points of the analysis_point events among the given events, in order.
C23_Points(events) ==
    IF events = <<>> THEN <<>>
    ELSE IF Head(events).type = "analysis_point"
         THEN <<Head(events).point>> \o C23_Points(Tail(events))
         ELSE C23_Points(Tail(events))

C23_Put == [n \in 1..Len(delivered) |-> delivered[n].result]

\* C23: the results put on the queue are the ones already emitted as
\* analysis_point events followed by the ones still on the queue, each once
\* and in the order of the puts; when the generator has ended every result
\* put has been emitted and the last event, the result (or the error), comes
\* after all of them.
C23_EachPutEmittedOnce ==
    /\ C23_Points(stream_events) \o analysis_queue = C23_Put
    /\ gen_pc = "end" =>
           /\ C23_Points(stream_events) = C23_Put
           /\ stream_events[Len(stream_events)].type \in {"result", "error"}
           /\ \A n \in 1..(Len(stream_events) - 1) :
                  stream_events[n].type = "analysis_point"

\* Three results were put and emitted, and the result event follows them.
C23_Witness ==
    /\ gen_pc = "end"
    /\ Len(delivered) = 3
    /\ Len(stream_events) = 4
    /\ stream_events[4].type = "result"

\* The future is done while two results are still on the queue.
C23_WitnessFlush ==
    /\ gen_pc = "flush"
    /\ future = "done"
    /\ Len(analysis_queue) = 2
    /\ Len(stream_events) = 1

----------------------------------------------------------------------------
(* Properties of the hazard caches (SpecHazardCache) *)

\* C29: the caches only grow: the result a call has stored under its key, or
\* has been served from the cache, is the entry of that key from then on,
\* whether the calls for a key overlap or follow one another and whether the
\* stored result came from a tile that could not be fetched.
C29_CacheAppendOnly ==
    \A c \in Calls :
        hcall[c].pc = "returned" =>
            /\ <<hcall[c].service, hcall[c].key>> \in DOMAIN hazard_cache
            /\ hazard_cache[<<hcall[c].service, hcall[c].key>>] = hcall[c].result

====
